---- MODULE Spec2Model ----
(***************************************************************************)
(* Universal-ticket-mock-APIs: the schedule store, the cache-first         *)
(* resolution of a travel query, the persistence of scraped schedules and  *)
(* the booking manager.                                                    *)
(*                                                                         *)
(* Texts are sequences of one-character strings, so that substring search, *)
(* ILIKE patterns, split(' ') and strptime are computed and not assumed.   *)
(* Timestamps are minutes since 0001-01-01 00:00 (every datetime the code  *)
(* builds has seconds 00, see time_to_datetime).                           *)
(***************************************************************************)
EXTENDS Integers, Sequences, FiniteSets, TLC

\* ------------------------------------------------------------------ bounds
MaxScheduleId == 2
MaxBatch == 2
MaxBookings == 2

\* ------------------------------------------------------------------- texts
UpperChars == <<"A","B","C","D","E","F","G","H","I","J","K","L","M",
                "N","O","P","Q","R","S","T","U","V","W","X","Y","Z">>
LowerChars == <<"a","b","c","d","e","f","g","h","i","j","k","l","m",
                "n","o","p","q","r","s","t","u","v","w","x","y","z">>
DigitChars == <<"0","1","2","3","4","5","6","7","8","9">>

\* str.lower() on one character
LowerChar(c) ==
    IF \E i \in 1..26 : UpperChars[i] = c
    THEN LowerChars[CHOOSE i \in 1..26 : UpperChars[i] = c]
    ELSE c

\* str.lower()
Lower(s) == [i \in 1..Len(s) |-> LowerChar(s[i])]

IsDigit(c) == \E i \in 1..10 : DigitChars[i] = c
DigitVal(c) == (CHOOSE i \in 1..10 : DigitChars[i] = c) - 1

\* x in s, for a one-character x
HasChar(s, c) == \E i \in 1..Len(s) : s[i] = c

\* sub in s (Python substring test)
Contains(s, sub) ==
    \E i \in 0..(Len(s) - Len(sub)) :
        \A j \in 1..Len(sub) : s[i + j] = sub[j]

\* the positions of the separator c in s
Positions(s, c) == {i \in 1..Len(s) : s[i] = c}

\* the position of the n-th separator; 0 before the first, Len(s) + 1 after the last
SepAt(s, c, n) ==
    IF n = 0 THEN 0
    ELSE IF n > Cardinality(Positions(s, c)) THEN Len(s) + 1
    ELSE CHOOSE i \in Positions(s, c) :
            Cardinality({j \in Positions(s, c) : j < i}) = n - 1

\* s.split(sep): the fields between the separators
SplitOn(s, sep) ==
    [n \in 1..(Cardinality(Positions(s, sep)) + 1) |->
        SubSeq(s, SepAt(s, sep, n - 1) + 1, SepAt(s, sep, n) - 1)]

\* s.split(' ')[0]: the text before the first blank
BeforeBlank(s) == SubSeq(s, 1, SepAt(s, " ", 1) - 1)

\* SQL LIKE from position i of s and j of p: % matches any run of characters,
\* _ any one character
RECURSIVE LikeFrom(_, _, _, _)
LikeFrom(s, p, i, j) ==
    IF j > Len(p) THEN i > Len(s)
    ELSE IF p[j] = "%"
         THEN LikeFrom(s, p, i, j + 1) \/ (i <= Len(s) /\ LikeFrom(s, p, i + 1, j))
         ELSE /\ i <= Len(s)
              /\ (p[j] = "_" \/ p[j] = s[i])
              /\ LikeFrom(s, p, i + 1, j + 1)

Like(s, p) == LikeFrom(s, p, 1, 1)

\* column.ilike(pattern): LIKE on the lower-cased value and pattern
ILike(s, p) == Like(Lower(s), Lower(p))

\* ---------------------------------------------------------------- calendar
MinutesPerDay == 1440

IsLeap(y) == (y % 4 = 0) /\ ((y % 100 # 0) \/ (y % 400 = 0))

DaysInMonth(y, m) ==
    IF m = 2 THEN (IF IsLeap(y) THEN 29 ELSE 28)
    ELSE IF m \in {4, 6, 9, 11} THEN 30 ELSE 31

RECURSIVE DaysBeforeMonth(_, _)
DaysBeforeMonth(y, m) ==
    IF m = 1 THEN 0 ELSE DaysBeforeMonth(y, m - 1) + DaysInMonth(y, m - 1)

\* date.toordinal() - 1: whole days since 0001-01-01
DayNumber(y, m, d) ==
    (y - 1) * 365 + ((y - 1) \div 4) - ((y - 1) \div 100) + ((y - 1) \div 400)
    + DaysBeforeMonth(y, m) + (d - 1)

\* a run of digits as a number
RECURSIVE DigitsValUpTo(_, _)
DigitsValUpTo(s, n) ==
    IF n = 0 THEN 0 ELSE DigitsValUpTo(s, n - 1) * 10 + DigitVal(s[n])
DigitsVal(s) == DigitsValUpTo(s, Len(s))

AllDigits(s) == s # <<>> /\ \A i \in 1..Len(s) : IsDigit(s[i])

\* one strptime directive of at most two digits with its range (%m %d %H %M %S)
Field2(s, lo, hi) ==
    /\ AllDigits(s)
    /\ Len(s) <= 2
    /\ DigitsVal(s) >= lo
    /\ DigitsVal(s) <= hi

Raised == [ok |-> FALSE, dt |-> 0]
Parsed(n) == [ok |-> TRUE, dt |-> n]

\* the fields of '%Y-%m-%d' as midnight of the day, or ValueError
DateOfFields(f) ==
    IF /\ Len(f) = 3
       /\ AllDigits(f[1]) /\ Len(f[1]) = 4 /\ DigitsVal(f[1]) >= 1
       /\ Field2(f[2], 1, 12)
       /\ Field2(f[3], 1, 31)
       /\ DigitsVal(f[3]) <= DaysInMonth(DigitsVal(f[1]), DigitsVal(f[2]))
    THEN Parsed(DayNumber(DigitsVal(f[1]), DigitsVal(f[2]), DigitsVal(f[3]))
                * MinutesPerDay)
    ELSE Raised

\* datetime.strptime(s, '%Y-%m-%d'): midnight of the day, or ValueError
StrptimeDate(s) == DateOfFields(SplitOn(s, "-"))

\* the fields of '%H:%M:%S' as minutes after midnight, or ValueError
ClockOfFields(t) ==
    IF /\ Len(t) = 3
       /\ Field2(t[1], 0, 23)
       /\ Field2(t[2], 0, 59)
       /\ Field2(t[3], 0, 61)
    THEN Parsed(DigitsVal(t[1]) * 60 + DigitsVal(t[2]))
    ELSE Raised

\* the two blank-separated parts of '%Y-%m-%d %H:%M:%S'
DateTimeOfParts(parts) ==
    IF Len(parts) = 2 /\ StrptimeDate(parts[1]).ok
       /\ ClockOfFields(SplitOn(parts[2], ":")).ok
    THEN Parsed(StrptimeDate(parts[1]).dt + ClockOfFields(SplitOn(parts[2], ":")).dt)
    ELSE Raised

\* datetime.strptime(s, '%Y-%m-%d %H:%M:%S'), or ValueError
StrptimeDateTime(s) == DateTimeOfParts(SplitOn(s, " "))

\* date_part of utils.time_to_datetime / utils.parse_query_date
DatePart(base_date) ==
    IF HasChar(base_date, " ") THEN BeforeBlank(base_date) ELSE base_date

\* the try / except of utils.time_to_datetime: the first conversion, or the
\* fallback when it raises (which may raise in turn)
OrFallback(first, fallback) == IF first.ok THEN first ELSE fallback

\* utils.time_to_datetime(time_str, base_date)
time_to_datetime(time_str, base_date) ==
    OrFallback(StrptimeDateTime(DatePart(base_date) \o <<" ">> \o time_str
                                \o <<":","0","0">>),
               StrptimeDateTime(base_date \o <<" ","0","0",":","0","0",":","0","0">>))

\* start_of_day and end_of_day of utils.parse_query_date
DayBounds(day) ==
    IF day.ok
    THEN [ok |-> TRUE, start |-> day.dt, end |-> day.dt + MinutesPerDay - 1]
    ELSE [ok |-> FALSE, start |-> 0, end |-> 0]

\* utils.parse_query_date(datetime_str): <<start_of_day, end_of_day>>
parse_query_date(datetime_str) == DayBounds(StrptimeDate(DatePart(datetime_str)))

\* python str.strip() (blanks only): from the first to the last non-blank
Strip(s) ==
    LET inked == {i \in 1..Len(s) : s[i] # " "} IN
    IF inked = {} THEN <<>>
    ELSE SubSeq(s, CHOOSE i \in inked : \A j \in inked : i <= j,
                   CHOOSE i \in inked : \A j \in inked : i >= j)

\* ------------------------------------------------------------- sample texts
TxtDelhi == <<"D","e","l","h","i">>
TxtDel == <<"d","e","l">>
TxtAgra == <<"A","g","r","a">>
TxtDUnderscoreL == <<"d","_","l">>
TxtNewDelhi == <<"N","e","w"," ","D","e","l","h","i">>
TxtMumbai == <<"M","u","m","b","a","i">>
TxtMumbaiCentral == <<"M","u","m","b","a","i"," ","C">>
Txt12951 == <<"1","2","9","5","1">>
Txt12953 == <<"1","2","9","5","3">>
TxtEmpty == <<>>
\* absent value (Python None)
None == <<"<None>">>

DateDec31 == <<"2","0","2","4","-","1","2","-","3","1">>
DateDec31Time == DateDec31 \o <<" ","0","9",":","3","0">>
DateSlashed == <<"3","1","/","1","2","/","2","0","2","4">>

Time0615 == <<"0","6",":","1","5">>
Time1655 == <<"1","6",":","5","5">>
Time2350 == <<"2","3",":","5","0">>

ClassSL == <<"S","L">>
ClassSLLower == <<"s","l">>
Class2A == <<"2","A">>
Class3A == <<"3","A">>
ClassPercent == <<"%">>
ClassUnderscores == <<"_","_">>

StatusAvailable3 == <<"3"," ","A","v","a","i","l","a","b","l","e">>
StatusWL12 == <<"W","L"," ","1","2">>
StatusRegret == <<"R","e","g","r","e","t">>

Price1500 == <<"1","5","0","0">>
PriceNA == <<"N","/","A">>

\* ------------------------------------------------------------------ inputs
\* schemas.TravelAvailabilityQuery
Query(mode, origin, destination, datetime) ==
    [mode |-> mode, origin |-> origin, destination |-> destination,
     datetime |-> datetime]

\* the requests tried: a date, the same day with a time part and another spelling
\* of the origin, an origin no scraped name contains, a date strptime rejects, and
\* the two modes without a scraper
Queries ==
    {Query("train", TxtDelhi, TxtMumbai, DateDec31),
     Query("train", TxtDel, TxtMumbai, DateDec31Time),
     Query("train", TxtAgra, TxtMumbai, DateDec31),
     Query("train", TxtDelhi, TxtMumbai, DateSlashed),
     Query("bus", TxtDelhi, TxtMumbai, DateDec31),
     Query("flight", TxtDelhi, TxtMumbai, DateDec31)}

\* schemas.SeatAvailabilityResponse as the scraper fills it
\* the rupee sign, one character of a page text
Rupee == "<rupee>"
PagePrice1500 == <<Rupee,"1","5","0","0">>
PagePrice1Comma500 == <<Rupee,"1",",","5","0","0">>
PagePriceBlank == <<Rupee," ","4","5","0"," ">>
\* what .bookingclassprice may read; None when the element is missing
PagePrices == {None, PagePrice1500, PagePrice1Comma500, PagePriceBlank}

\* str.replace(c, '')
RemoveChar(s, c) == SelectSeq(s, LAMBDA x : x # c)

\* TrainScraper._extract_seat_price
extract_seat_price(price_text) ==
    IF price_text = None THEN PriceNA ELSE Strip(RemoveChar(price_text, Rupee))

Seat(c, s, p) == [class_name |-> c, status |-> s, price |-> p]

\* schemas.TransportScheduleResponse as TrainScraper fills it
RawSchedule(tid, dep, arr, seatRows) ==
    [transport_mode |-> "train", transport_id |-> tid,
     origin |-> TxtNewDelhi, destination |-> TxtMumbaiCentral,
     departure_time |-> dep, arrival_time |-> arr,
     seat_availability |-> seatRows]

\* what the Extraction Source may hand back for one train: an overnight run, a
\* same-day run, equal clock texts, and the empty clock texts the scraper leaves
\* when a page block has no time line
RawOvernight ==
    RawSchedule(Txt12951, Time1655, Time0615,
                <<Seat(ClassSL, StatusAvailable3, Price1500),
                  Seat(Class3A, StatusWL12, Price1500)>>)
RawSameDay ==
    RawSchedule(Txt12953, Time0615, Time2350, <<Seat(ClassSL, StatusRegret, PriceNA)>>)
RawEqual == RawSchedule(Txt12953, Time0615, Time0615, <<>>)
RawNoTimes == RawSchedule(Txt12951, TxtEmpty, TxtEmpty, <<Seat(ClassSL, StatusWL12, PriceNA)>>)

RawCatalogue == {RawOvernight, RawSameDay, RawEqual, RawNoTimes}

RECURSIVE SeqsUpTo(_, _)
SeqsUpTo(S, n) ==
    IF n = 0 THEN {<<>>}
    ELSE LET shorter == SeqsUpTo(S, n - 1)
         IN  shorter \cup {Append(b, x) : b \in shorter, x \in S}

\* the non-empty lists an extraction can return: a results page lists a train once
Batches ==
    {b \in SeqsUpTo(RawCatalogue, MaxBatch) \ {<<>>} :
        \A i, j \in 1..Len(b) : i # j => b[i].transport_id # b[j].transport_id}

\* The conversions of the texts above, computed once: TimeTable[t, d] is
\* time_to_datetime(t, d) and DayTable[d] is parse_query_date(d).
ClockTexts == UNION {{r.departure_time, r.arrival_time} : r \in RawCatalogue}
\* what a caller may hand to the lookup alone: also an origin holding a LIKE
\* wildcard
LookupQueries == Queries \cup {Query("train", TxtDUnderscoreL, TxtMumbai, DateDec31)}

DateTexts == {q.datetime : q \in Queries}
TimeTable == [t \in ClockTexts, d \in DateTexts |-> time_to_datetime(t, d)]
DayTable == [d \in DateTexts |-> parse_query_date(d)]

\* ------------------------------------------------------------------- state
VARIABLES
    schedules,      \* committed rows of transport_schedules
    seats,          \* committed rows of seat_availability
    bookings,       \* committed rows of bookings
    scheduleSeq,    \* last id drawn from transport_schedules.id
    seatSeq,        \* last id drawn from seat_availability.id
    bookingSeq,     \* number of booking ids generated so far (uuid4: always fresh)
    raw,            \* history: schedule id -> the raw record and query it was saved from
    res,            \* the value returned by the last call
    requests        \* availability requests running in executor threads

vars ==
    <<schedules, seats, bookings, scheduleSeq, seatSeq, bookingSeq, raw, res, requests>>

\* Wiring and schema of the code: TransportScraper.__init__ sets train_scraper only,
\* so self.database_service is an AttributeError wherever it is read.
HasDatabaseService == FALSE
\* database_config.Bookings has the columns id, user_id, schedule_id, booking_status
\* and booking_date: the declarative constructor raises TypeError on seat_preferences=.
BookingsHasSeatPreferences == FALSE

NoQuery == [mode |-> "", origin |-> <<>>, destination |-> <<>>, datetime |-> <<>>]
NoBookingId == 0

\* The value a call returns. outcome is "returned" or "raised" (an exception left
\* the call); extracted tells whether the Extraction Source was invoked.
Result(op, q, id, outcome, status, source, ids, message, bid, bstatus, extracted) ==
    [op |-> op, query |-> q, id |-> id, outcome |-> outcome, status |-> status,
     source |-> source, ids |-> ids, message |-> message, booking_id |-> bid,
     booking_status |-> bstatus, extracted |-> extracted]

\* ------------------------------------------------- cache lookup (new class)
\* the filter of TransportScraper.search_schedules
MatchesQuery(s, q, day) ==
    /\ s.transport_mode = q.mode
    /\ \/ ILike(s.origin_query, <<"%">> \o q.origin \o <<"%">>)
       \/ ILike(s.origin, <<"%">> \o q.origin \o <<"%">>)
    /\ \/ ILike(s.destination_query, <<"%">> \o q.destination \o <<"%">>)
       \/ ILike(s.destination, <<"%">> \o q.destination \o <<"%">>)
    /\ s.departure_time >= day.start
    /\ s.departure_time <= day.end

\* TransportScraper.search_schedules: the ids found, or {} for None. A ValueError
\* of parse_query_date is caught and printed, and None is returned.
MatchingIds(q, rows, day) ==
    IF day.ok THEN {s.id : s \in {r \in rows : MatchesQuery(r, q, day)}} ELSE {}
search_schedules(q, rows) == MatchingIds(q, rows, DayTable[q.datetime])

\* ------------------------------------------------ persistence (new class)
\* the rollover with the comparison made strict: equal times are left alone
RollArrivalStrict(departure_dt, arrival_dt) ==
    IF arrival_dt < departure_dt THEN arrival_dt + MinutesPerDay ELSE arrival_dt

\* the rollover applied to every record, whatever the order of the two times
RollArrivalAlways(departure_dt, arrival_dt) == arrival_dt + MinutesPerDay

\* save_schedules lines 70-72: arrival on the next day if not after departure
RollArrival(departure_dt, arrival_dt) ==
    IF arrival_dt <= departure_dt THEN arrival_dt + MinutesPerDay ELSE arrival_dt

\* the transport_schedules row save_schedules builds for one scraped record
TransportSchedulesRow(id, schedule_data, q, departure_dt, arrival_dt) ==
    [id |-> id,
     transport_mode |-> schedule_data.transport_mode,
     transport_id |-> schedule_data.transport_id,
     origin |-> schedule_data.origin,
     departure_time |-> departure_dt,
     destination |-> schedule_data.destination,
     arrival_time |-> RollArrival(departure_dt, arrival_dt),
     origin_query |-> q.origin,
     destination_query |-> q.destination]
ScheduleRow(id, schedule_data, q) ==
    TransportSchedulesRow(id, schedule_data, q,
                          TimeTable[schedule_data.departure_time, q.datetime].dt,
                          TimeTable[schedule_data.arrival_time, q.datetime].dt)

\* seat rows built before the schedule's flush: its id is not assigned yet
SeatRowsUnflushed(firstId, schedule_id, schedule_data) ==
    {[id |-> firstId + k - 1,
      schedule_id |-> 0,
      class_name |-> schedule_data.seat_availability[k].class_name,
      status |-> schedule_data.seat_availability[k].status,
      price |-> schedule_data.seat_availability[k].price]
       : k \in 1..Len(schedule_data.seat_availability)}

\* the seat_availability rows save_schedules builds for one scraped record
SeatRows(firstId, schedule_id, schedule_data) ==
    {[id |-> firstId + k - 1,
      schedule_id |-> schedule_id,
      class_name |-> schedule_data.seat_availability[k].class_name,
      status |-> schedule_data.seat_availability[k].status,
      price |-> schedule_data.seat_availability[k].price]
       : k \in 1..Len(schedule_data.seat_availability)}

RECURSIVE SeatsBefore(_, _)
SeatsBefore(batch, i) ==
    IF i <= 1 THEN 0
    ELSE SeatsBefore(batch, i - 1) + Len(batch[i - 1].seat_availability)

\* time_to_datetime raises for record i (its fallback strptime fails)
ConversionRaises(schedule_data, q) ==
    \/ ~TimeTable[schedule_data.departure_time, q.datetime].ok
    \/ ~TimeTable[schedule_data.arrival_time, q.datetime].ok

\* the first statement of the loop that raises: record i's conversion, or the
\* store's refusal at failAt (flush of record failAt, or the commit for Len + 1);
\* 0 when the whole batch goes through
FirstOf(bad, failAt, n) ==
    IF bad # {} THEN CHOOSE i \in bad : \A j \in bad : i <= j
    ELSE IF failAt = n + 1 THEN failAt ELSE 0
FirstFailure(batch, q, failAt) ==
    FirstOf({i \in 1..Len(batch) : ConversionRaises(batch[i], q) \/ i = failAt},
            failAt, Len(batch))

\* what the session holds when the loop stops at record upTo (all of it for 0)
PendingSchedules(batch, q, seq0, upTo) ==
    {ScheduleRow(seq0 + i, batch[i], q) : i \in 1..upTo}
PendingSeats(batch, seq0, seatSeq0, upTo) ==
    UNION {SeatRows(seatSeq0 + SeatsBefore(batch, i) + 1, seq0 + i, batch[i])
              : i \in 1..upTo}

\* a failed batch whose flushed rows stay in the store (no rollback)
CommittedOnFailureKept(rows) == rows

\* the rows of a failed batch that reach the store: none, the session is closed
\* without a commit (database_config.get_db) and its transaction rolled back
CommittedOnFailure(rows) == {}

\* the value and the writes of save_schedules when its first raising statement
\* is fail (0: none) and done records went through before it
SaveOutcome(batch, q, fail, done, seq0, seatSeq0) ==
    [raised |-> fail # 0,
     schedules |-> IF fail = 0 THEN PendingSchedules(batch, q, seq0, done)
                   ELSE CommittedOnFailure(PendingSchedules(batch, q, seq0, done)),
     seats |-> IF fail = 0 THEN PendingSeats(batch, seq0, seatSeq0, done)
               ELSE CommittedOnFailure(PendingSeats(batch, seq0, seatSeq0, done)),
     ids |-> IF fail = 0 THEN {seq0 + i : i \in 1..Len(batch)} ELSE {}]

\* TransportScraper.save_schedules(schedules, query, db)
save_schedules(batch, q, failAt, seq0, seatSeq0) ==
    CHOOSE outcome \in
        {SaveOutcome(batch, q, fail,
                     IF fail = 0 \/ fail = Len(batch) + 1 THEN Len(batch)
                     ELSE fail - 1,
                     seq0, seatSeq0)
            : fail \in {FirstFailure(batch, q, failAt)}} : TRUE

\* --------------------------------------------------------- booking policy
\* utils.decide_train_booking_outcome
\* the mapping with "regret" looked for before "available"
decide_regret_before_available(status_text) ==
    IF status_text = None \/ status_text = <<>> THEN "regret"
    ELSE LET text == Lower(Strip(status_text)) IN
         IF Contains(text, <<"r","e","g","r","e","t">>) THEN "regret"
         ELSE IF Contains(text, <<"a","v","a","i","l","a","b","l","e">>)
         THEN "confirmed"
         ELSE IF \/ Contains(text, <<"w","a","i","t","l","i","s","t">>)
                 \/ Contains(text, <<"w","l">>)
              THEN "waitlist"
              ELSE "regret"

\* the mapping with the waitlist test ahead of the regret test
decide_waitlist_before_regret(status_text) ==
    IF status_text = None \/ status_text = <<>> THEN "regret"
    ELSE LET text == Lower(Strip(status_text)) IN
         IF Contains(text, <<"a","v","a","i","l","a","b","l","e">>) THEN "confirmed"
         ELSE IF \/ Contains(text, <<"w","a","i","t","l","i","s","t">>)
                 \/ Contains(text, <<"w","l">>)
         THEN "waitlist"
         ELSE "regret"

decide_train_booking_outcome(status_text) ==
    IF status_text = None \/ status_text = <<>> THEN "regret"
    ELSE LET text == Lower(Strip(status_text)) IN
         IF Contains(text, <<"a","v","a","i","l","a","b","l","e">>) THEN "confirmed"
         ELSE IF Contains(text, <<"r","e","g","r","e","t">>) THEN "regret"
         ELSE IF \/ Contains(text, <<"w","a","i","t","l","i","s","t">>)
                 \/ Contains(text, <<"w","l">>)
              THEN "waitlist"
              ELSE "regret"

BookingStatuses == {"confirmed", "waitlist", "regret", "cancelled"}

\* -------------------------------------------------------- extraction source
\* TrainScraper.scrape_train_schedules / the body of the old scrape_trains: the
\* driver cannot be set up or a step raises, a station field cannot be filled, the
\* results do not load in time, or a list of records (possibly empty) comes back
Extractions ==
    {[kind |-> k, schedules |-> <<>>] : k \in {"raises", "fill_failed", "timeout"}}
    \cup {[kind |-> "returns", schedules |-> b] : b \in Batches \cup {<<>>}}

\* what a call does to the store, with the value it returns
Effect(result, newSchedules, newSeats, newRaw) ==
    [res |-> result, schedules |-> newSchedules, seats |-> newSeats, raw |-> newRaw]
NoWrite(result) == Effect(result, {}, {}, {})

\* history kept for each committed schedule id
RawOf(batch, q, seq0) ==
    {[id |-> seq0 + i,
      departure_time |-> batch[i].departure_time,
      arrival_time |-> batch[i].arrival_time,
      datetime |-> q.datetime,
      seat_count |-> Len(batch[i].seat_availability)] : i \in 1..Len(batch)}

\* ------------------------------------------------ orchestrator (new class)
\* an error response that drops the reason
ErrorResponseWithoutMessage(op, q, message, extracted) ==
    Result(op, q, 0, "returned", "error", "scraper", {}, "", NoBookingId, "",
           extracted)

\* TransportScraper._create_error_response / _create_not_implemented_response
ErrorResponse(op, q, message, extracted) ==
    Result(op, q, 0, "returned", "error", "scraper", {}, message, NoBookingId, "",
           extracted)

\* the end of TransportScraper._scrape_trains, after save_schedules
ScrapedResponse(op, q, ext, saved, seq0) ==
    IF saved.raised
    THEN NoWrite(ErrorResponse(op, q, "Train scraping error", TRUE))
    ELSE Effect(Result(op, q, 0, "returned", "success", "scraper", saved.ids,
                       "Successfully scraped trains", NoBookingId, "", TRUE),
                saved.schedules, saved.seats, RawOf(ext.schedules, q, seq0))

\* TransportScraper._scrape_trains
scrape_trains_new(op, q, ext, failAt, seq0, seatSeq0) ==
    IF ext.kind # "returns"
    THEN NoWrite(ErrorResponse(op, q, "Train scraping error", TRUE))
    ELSE IF ext.schedules = <<>>
    THEN NoWrite(Result(op, q, 0, "returned", "success", "scraper", {},
                        "Successfully scraped 0 trains", NoBookingId, "", TRUE))
    ELSE IF ~HasDatabaseService
    THEN NoWrite(ErrorResponse(op, q, "Train scraping error", TRUE))
    ELSE ScrapedResponse(op, q, ext,
                         save_schedules(ext.schedules, q, failAt, seq0, seatSeq0),
                         seq0)

\* TransportScraper._scrape_availability
scrape_availability_new(op, q, ext, failAt, seq0, seatSeq0) ==
    IF q.mode = "train" THEN scrape_trains_new(op, q, ext, failAt, seq0, seatSeq0)
    ELSE IF q.mode = "bus"
    THEN NoWrite(ErrorResponse(op, q, "Bus scraping not implemented yet", FALSE))
    ELSE IF q.mode = "flight"
    THEN NoWrite(ErrorResponse(op, q, "Flight scraping not implemented yet", FALSE))
    ELSE NoWrite(ErrorResponse(op, q, "Unsupported transport mode", FALSE))

\* TransportScraper.get_availability: reading self.database_service raises
\* AttributeError before anything else happens
get_availability(q, ext, failAt, rows, seq0, seatSeq0) ==
    IF ~HasDatabaseService
    THEN NoWrite(Result("get_availability", q, 0, "raised", "", "", {},
                        "AttributeError: database_service", NoBookingId, "", FALSE))
    ELSE IF search_schedules(q, rows) # {}
    THEN NoWrite(Result("get_availability", q, 0, "returned", "success",
                        "database", search_schedules(q, rows),
                        "Found schedules from database", NoBookingId, "", FALSE))
    ELSE scrape_availability_new("get_availability", q, ext, failAt, seq0,
                                 seatSeq0)

\* ------------------------------------- orchestrator (old class, main.py's)
\* transport_scraper.TransportScraper.search_database: the filter reads
\* TransportSchedules.search_date, a column database_config no longer declares;
\* the AttributeError is caught and None returned
search_database(q, rows) == {}

\* transport_scraper.TransportScraper.save_to_database: the constructor is given
\* search_date=, which raises TypeError for the first record; rollback, re-raise
save_to_database(batch, q) ==
    [raised |-> TRUE, schedules |-> {}, seats |-> {}, ids |-> {}]

\* scrape_trains with the results-page timeout reported as an empty success
scrape_trains_timeout_is_empty(q, ext) ==
    IF ext.kind = "raises"
    THEN NoWrite(ErrorResponse("scrape_availability", q, "Main execution error", TRUE))
    ELSE IF ext.kind = "fill_failed"
    THEN NoWrite(ErrorResponse("scrape_availability", q, "Failed to fill station", TRUE))
    ELSE NoWrite(Result("scrape_availability", q, 0, "returned", "success", "scraper",
                        {}, "Successfully scraped 0 trains", NoBookingId, "", TRUE))

\* transport_scraper.TransportScraper.scrape_trains
scrape_trains(q, ext) ==
    IF ext.kind = "raises"
    THEN NoWrite(ErrorResponse("scrape_availability", q, "Main execution error", TRUE))
    ELSE IF ext.kind = "fill_failed"
    THEN NoWrite(ErrorResponse("scrape_availability", q, "Failed to fill station", TRUE))
    ELSE IF ext.kind = "timeout"
    THEN NoWrite(ErrorResponse("scrape_availability", q,
                               "Train results did not load within timeout", TRUE))
    ELSE IF ext.schedules = <<>>
    THEN NoWrite(Result("scrape_availability", q, 0, "returned", "success", "scraper",
                        {}, "Successfully scraped 0 trains", NoBookingId, "", TRUE))
    ELSE IF save_to_database(ext.schedules, q).raised
    THEN NoWrite(ErrorResponse("scrape_availability", q, "Main execution error",
                               TRUE))
    ELSE Effect(Result("scrape_availability", q, 0, "returned", "success",
                       "scraper", save_to_database(ext.schedules, q).ids,
                       "Successfully scraped trains", NoBookingId, "", TRUE),
                save_to_database(ext.schedules, q).schedules,
                save_to_database(ext.schedules, q).seats, {})

\* the dispatch without the test of the mode: every miss goes to the train scraper
scrape_availability_any_mode(q, ext, rows) ==
    IF search_database(q, rows) # {}
    THEN NoWrite(Result("scrape_availability", q, 0, "returned", "success",
                        "database", search_database(q, rows),
                        "Found schedules from database",
                        NoBookingId, "", FALSE))
    ELSE scrape_trains(q, ext)

\* transport_scraper.TransportScraper.scrape_availability (called by main.py)
scrape_availability(q, ext, rows) ==
    IF search_database(q, rows) # {}
    THEN NoWrite(Result("scrape_availability", q, 0, "returned", "success",
                        "database", search_database(q, rows),
                        "Found schedules from database",
                        NoBookingId, "", FALSE))
    ELSE IF q.mode = "train" THEN scrape_trains(q, ext)
    ELSE IF q.mode = "bus"
    THEN NoWrite(ErrorResponse("scrape_availability", q,
                               "Bus scraping not implemented yet", FALSE))
    ELSE IF q.mode = "flight"
    THEN NoWrite(ErrorResponse("scrape_availability", q,
                               "Flight scraping not implemented yet", FALSE))
    ELSE NoWrite(ErrorResponse("scrape_availability", q,
                               "Unsupported transport mode", FALSE))

\* --------------------------------------------------------- booking manager
\* a response that always carries a booking id and status, generated up front
BookingResponseWithId(status, message, bid, bstatus) ==
    Result("create_booking", NoQuery, 0, "returned", status, "", {}, message,
           IF bid = NoBookingId THEN 1 ELSE bid,
           IF bstatus = "" THEN "confirmed" ELSE bstatus, FALSE)

\* schemas.BookingResponse
BookingResponse(status, message, bid, bstatus) ==
    Result("create_booking", NoQuery, 0, "returned", status, "", {}, message, bid,
           bstatus, FALSE)

\* .first() on an empty selection (Python None)
NoRow == [id |-> 0, schedule_id |-> 0, class_name |-> <<>>, status |-> <<>>,
          price |-> <<>>]

\* the seat rows the filter of create_booking lines 74-81 selects
SeatRowsFor(schedule_id, seat_class, seatTable) ==
    {r \in seatTable : r.schedule_id = schedule_id /\ ILike(r.class_name, seat_class)}

\* utils.create_booking, for the row .first() returned (None when there is none):
\* the response and the bookings row it commits ({} for none)
create_booking(schedule_id, seat_class, seat_status_row, storeFails, scheduleTable, newId) ==
    IF storeFails
    THEN [response |-> BookingResponse("error",
                                       "Error creating booking: store", NoBookingId, ""),
          rows |-> {}]
    ELSE IF ~\E s \in scheduleTable : s.id = schedule_id
    THEN [response |-> BookingResponse("error",
                                       "Schedule not found", NoBookingId, ""),
          rows |-> {}]
    ELSE IF seat_class = None \/ seat_class = <<>>
    THEN [response |-> BookingResponse("error",
                                       "seat_preferences.seat_class is required",
                                       NoBookingId, ""),
          rows |-> {}]
    ELSE IF seat_status_row = NoRow
    THEN [response |-> BookingResponse("error",
                                       "No seat availability data for class",
                                       NoBookingId, ""),
          rows |-> {}]
    ELSE IF ~BookingsHasSeatPreferences
    THEN [response |-> BookingResponse("error",
                                       "Error creating booking: TypeError",
                                       NoBookingId, ""),
          rows |-> {}]
    ELSE [response |-> BookingResponse("success", "Booking created", newId,
                           decide_train_booking_outcome(seat_status_row.status)),
          rows |-> {[id |-> newId, schedule_id |-> schedule_id,
                     booking_status |->
                         decide_train_booking_outcome(seat_status_row.status)]}]

\* schemas.CancellationResponse
CancellationResponse(status, message) ==
    Result("cancel_booking", NoQuery, 0, "returned", status, "", {}, message,
           NoBookingId, "", FALSE)

\* the status written with another spelling than the one line 148 tests
CancelledStatusMisspelt == "canceled"

\* the status cancel_booking line 155 writes
CancelledStatus == "cancelled"

\* when the store refuses a statement of cancel_booking: never, at a query or
\* the commit of line 156, or after the commit, at the reload of the expired
\* schedule that line 160 reads
StoreFailures == {"never", "before_commit", "after_commit"}

\* the bookings table with the booking's status set to cancelled (lines 155-156)
Committed(booking, bookingTable) ==
    (bookingTable \ {booking})
    \cup {[booking EXCEPT !.booking_status = CancelledStatus]}

\* cancel_booking lines 137-165 for the row .first() returned
CancelFound(booking, storeFails, bookingTable) ==
    IF booking.booking_status = "cancelled"
    THEN [response |-> CancellationResponse("error",
                                            "Booking is already cancelled"),
          bookings |-> bookingTable]
    ELSE IF storeFails = "after_commit"
    THEN [response |-> CancellationResponse("error",
                                            "Error cancelling booking: store"),
          bookings |-> Committed(booking, bookingTable)]
    ELSE [response |-> CancellationResponse("success", "Booking cancelled"),
          bookings |-> Committed(booking, bookingTable)]

\* cancel_booking without the test of lines 148-153: a cancelled booking is
\* cancelled again and success returned
cancel_booking_unchecked(booking_id, storeFails, bookingTable) ==
    IF storeFails = "before_commit"
    THEN [response |-> CancellationResponse("error",
                                            "Error cancelling booking: store"),
          bookings |-> bookingTable]
    ELSE IF ~\E b \in bookingTable : b.id = booking_id
    THEN [response |-> CancellationResponse("error", "Booking not found"),
          bookings |-> bookingTable]
    ELSE [response |-> CancellationResponse(
                           IF storeFails = "after_commit" THEN "error" ELSE "success",
                           IF storeFails = "after_commit"
                           THEN "Error cancelling booking: store"
                           ELSE "Booking cancelled"),
          bookings |-> {IF b.id = booking_id
                        THEN [b EXCEPT !.booking_status = CancelledStatus]
                        ELSE b : b \in bookingTable}]

\* utils.cancel_booking: the response and the bookings table it leaves
cancel_booking(booking_id, storeFails, bookingTable) ==
    IF storeFails = "before_commit"
    THEN [response |-> CancellationResponse("error",
                                            "Error cancelling booking: store"),
          bookings |-> bookingTable]
    ELSE IF ~\E b \in bookingTable : b.id = booking_id
    THEN [response |-> CancellationResponse("error", "Booking not found"),
          bookings |-> bookingTable]
    ELSE CancelFound(CHOOSE b \in bookingTable : b.id = booking_id, storeFails,
                     bookingTable)

\* ------------------------------------------------------------------ actions
\* a write that replaces the tables by the new rows instead of adding to them
CommitReplacing(effect) ==
    /\ schedules' = IF effect.schedules = {} THEN schedules ELSE effect.schedules
    /\ seats' = IF effect.seats = {} THEN seats ELSE effect.seats
    /\ raw' = raw \cup effect.raw
    /\ scheduleSeq' = scheduleSeq + Cardinality(effect.schedules)
    /\ seatSeq' = seatSeq + Cardinality(effect.seats)
    /\ UNCHANGED <<bookings, bookingSeq>>

Commit(effect) ==
    /\ schedules' = schedules \cup effect.schedules
    /\ seats' = seats \cup effect.seats
    /\ raw' = raw \cup effect.raw
    /\ scheduleSeq' = scheduleSeq + Cardinality(effect.schedules)
    /\ seatSeq' = seatSeq + Cardinality(effect.seats)
    /\ UNCHANGED <<bookings, bookingSeq>>

Apply(effect) ==
    /\ res' = effect.res
    /\ Commit(effect)
    /\ UNCHANGED requests

HasRoom(batch) == scheduleSeq + Len(batch) <= MaxScheduleId

\* a request through the new class's entry point
GetAvailability ==
    \E q \in Queries :
        IF HasDatabaseService /\ q.mode = "train" /\ search_schedules(q, schedules) = {}
        THEN \E ext \in Extractions : \E failAt \in 0..(Len(ext.schedules) + 1) :
                /\ HasRoom(ext.schedules)
                /\ Apply(get_availability(q, ext, failAt, schedules, scheduleSeq,
                                          seatSeq))
        ELSE Apply(get_availability(q, [kind |-> "raises", schedules |-> <<>>], 0,
                                    schedules, scheduleSeq, seatSeq))

\* POST /api/travel/availability: main.py runs the old class's scrape_availability
ScrapeAvailability ==
    \E q \in Queries :
        IF q.mode = "train" /\ search_database(q, schedules) = {}
        THEN \E ext \in Extractions :
                /\ HasRoom(ext.schedules)
                /\ Apply(scrape_availability(q, ext, schedules))
        ELSE Apply(scrape_availability(q, [kind |-> "raises", schedules |-> <<>>],
                                       schedules))

\* a call of the cache lookup by itself
SearchSchedules ==
    \E q \in LookupQueries :
        \E found \in {search_schedules(q, schedules)} :
        Apply(NoWrite(Result("search_schedules", q, 0, "returned",
                             IF found = {} THEN "" ELSE "success",
                             IF found = {} THEN "" ELSE "database",
                             found,
                             IF found = {} THEN "None" ELSE "Found schedules from database",
                             NoBookingId, "", FALSE)))

\* a call of the persistence step by itself, for a train query and the list
\* extracted for it; the store refuses statement failAt (0: none)
SaveSchedules ==
    \E q \in {x \in Queries : x.mode = "train"} : \E batch \in Batches :
    \E failAt \in 0..(Len(batch) + 1) :
        /\ HasRoom(batch)
        /\ \E saved \in {save_schedules(batch, q, failAt, scheduleSeq, seatSeq)} :
           Apply(Effect(Result("save_schedules", q, 0,
                               IF saved.raised THEN "raised" ELSE "returned",
                               "", "", saved.ids, "", NoBookingId, "", FALSE),
                        saved.schedules, saved.seats,
                        IF saved.raised THEN {} ELSE RawOf(batch, q, scheduleSeq)))

SeatClassInputs ==
    {None, TxtEmpty, ClassSLLower, Class2A, ClassPercent, ClassUnderscores}

\* POST /api/book
CreateBooking ==
    \E schedule_id \in 1..(MaxScheduleId + 1) : \E seat_class \in SeatClassInputs :
    \E storeFails \in BOOLEAN :
        \E candidates \in {IF seat_class = None THEN {}
                             ELSE SeatRowsFor(schedule_id, seat_class, seats)} :
        \E row \in (IF candidates = {} THEN {NoRow} ELSE candidates) :
        \E done \in {create_booking(schedule_id, seat_class, row, storeFails,
                                    schedules, bookingSeq + 1)} :
                /\ done.rows # {} => bookingSeq < MaxBookings
                /\ res' = done.response
                /\ bookings' = bookings \cup done.rows
                /\ bookingSeq' = bookingSeq + Cardinality(done.rows)
                /\ UNCHANGED <<schedules, seats, scheduleSeq, seatSeq, raw, requests>>

\* POST /api/cancel
CancelBooking ==
    \E booking_id \in 1..(MaxBookings + 1) : \E storeFails \in StoreFailures :
        \E done \in {cancel_booking(booking_id, storeFails, bookings)} :
        /\ res' = done.response
        /\ bookings' = done.bookings
        /\ UNCHANGED <<schedules, seats, scheduleSeq, seatSeq, bookingSeq, raw,
                       requests>>

\* ------------------------------------------------------- executor threads
\* main.py hands each availability request to a thread of its own
MaxThreads == 2
Threads == 1..MaxThreads

NoResult ==
    Result("start", NoQuery, 0, "returned", "", "", {}, "", NoBookingId, "", FALSE)
NoExtraction == [kind |-> "raises", schedules |-> <<>>]
NoBooking == [id |-> NoBookingId, schedule_id |-> 0, booking_status |-> ""]
IdleRequest ==
    [pc |-> "idle", entry |-> "", query |-> NoQuery, ext |-> NoExtraction,
     failAt |-> 0, result |-> NoResult, booking_id |-> NoBookingId,
     seen |-> NoBooking]

\* ----------------------------------------------------------- initial state
SeedQuery ==
    [mode |-> "train", origin |-> TxtDelhi, destination |-> TxtMumbai,
     datetime |-> DateDec31]
SeedBatch == <<RawOvernight, RawSameDay>>

\* The store outlives the process (init_database only creates missing tables): it
\* is empty, or holds what an earlier run left: one saved batch and bookings on it.
Init ==
    /\ bookingSeq \in 0..MaxBookings
    /\ \E seeded \in BOOLEAN, saved \in {save_schedules(SeedBatch, SeedQuery, 0, 0, 0)} :
        /\ seeded \/ bookingSeq = 0
        /\ schedules = IF seeded THEN saved.schedules ELSE {}
        /\ seats = IF seeded THEN saved.seats ELSE {}
        /\ raw = IF seeded THEN RawOf(SeedBatch, SeedQuery, 0) ELSE {}
        /\ scheduleSeq = Cardinality(schedules)
        /\ seatSeq = Cardinality(seats)
    /\ \E st \in [1..bookingSeq -> BookingStatuses] :
        bookings = {[id |-> i, schedule_id |-> IF i = 1 THEN 1 ELSE 2,
                     booking_status |-> st[i]] : i \in 1..bookingSeq}
    /\ res = NoResult
    /\ requests = [t \in Threads |-> IdleRequest]

Next ==
    \/ GetAvailability
    \/ ScrapeAvailability
    \/ SearchSchedules
    \/ SaveSchedules
    \/ CreateBooking
    \/ CancelBooking

Spec == Init /\ [][Next]_vars

\* ================================================================== claims
\* a step that ends a resolution: the new class's get_availability or the old
\* class's scrape_availability (the one main.py calls)
\* ------------------------------------------- concurrent availability requests
\* get_travel_availability awaits run_in_executor, so two requests interleave at
\* the lookup, at the extraction and at the write. Each thread serves one request.
ConcQueries == {q \in Queries : q.datetime = DateDec31 /\ q.mode \in {"train", "bus"}}
ConcExtractions ==
    {e \in Extractions : e.kind = "timeout" \/ (e.kind = "returns" /\ Len(e.schedules) <= 1)}
Entries == {"get_availability", "scrape_availability"}

Finish(t, result) ==
    /\ requests' = [requests EXCEPT ![t].pc = "done", ![t].result = result]
    /\ res' = result

\* the request arrives and its thread starts
StartRequest(t) ==
    /\ requests[t].pc = "idle"
    /\ \E entry \in Entries, q \in ConcQueries :
          requests' = [requests EXCEPT ![t].pc = "lookup", ![t].entry = entry,
                                       ![t].query = q]
    /\ UNCHANGED <<schedules, seats, bookings, scheduleSeq, seatSeq, bookingSeq, raw, res>>

\* the first statement of get_availability / scrape_availability: the lookup, and
\* everything that returns (or raises) without the extraction
MissesForTrain(entry, q) ==
    /\ q.mode = "train"
    /\ IF entry = "get_availability"
       THEN HasDatabaseService /\ search_schedules(q, schedules) = {}
       ELSE search_database(q, schedules) = {}

LookupStep(t) ==
    /\ requests[t].pc = "lookup"
    /\ IF MissesForTrain(requests[t].entry, requests[t].query)
       THEN /\ requests' = [requests EXCEPT ![t].pc = "extract"]
            /\ UNCHANGED res
       ELSE IF requests[t].entry = "get_availability"
       THEN Finish(t, get_availability(requests[t].query, NoExtraction, 0, schedules,
                                       scheduleSeq, seatSeq).res)
       ELSE Finish(t, scrape_availability(requests[t].query, NoExtraction,
                                          schedules).res)
    /\ UNCHANGED <<schedules, seats, bookings, scheduleSeq, seatSeq, bookingSeq, raw>>

\* the browser session ends: it failed, or it produced a list
ExtractStep(t) ==
    /\ requests[t].pc = "extract"
    /\ \E ext \in ConcExtractions :
          requests' = [requests EXCEPT ![t].pc = "persist", ![t].ext = ext]
    /\ UNCHANGED <<schedules, seats, bookings, scheduleSeq, seatSeq, bookingSeq, raw, res>>

\* the rest of _scrape_trains / scrape_trains: the write and the response
PersistEffect(entry, q, ext, failAt) ==
    IF entry = "get_availability"
    THEN scrape_availability_new("get_availability", q, ext, failAt, scheduleSeq,
                                 seatSeq)
    ELSE scrape_trains(q, ext)

PersistStep(t) ==
    /\ requests[t].pc = "persist"
    /\ \E failAt \in 0..Len(requests[t].ext.schedules) :
       \E effect \in {PersistEffect(requests[t].entry, requests[t].query,
                                    requests[t].ext, failAt)} :
          /\ scheduleSeq + Cardinality(effect.schedules) <= MaxScheduleId
          /\ Commit(effect)
          /\ Finish(t, effect.res)

ConcInit == Init /\ bookingSeq = 0

ConcNext ==
    \E t \in Threads :
        \/ StartRequest(t)
        \/ LookupStep(t)
        \/ ExtractStep(t)
        \/ PersistStep(t)

ConcSpec == ConcInit /\ [][ConcNext]_vars

\* ------------------------------------------------- concurrent cancellations
\* cancel_ticket is a plain def: FastAPI runs each call in a worker thread with a
\* session of its own. A call reads the booking, tests its status, and later
\* commits the update; nothing locks the row in between.
StartCancel(t) ==
    /\ requests[t].pc = "idle"
    /\ \E booking_id \in 1..(MaxBookings + 1) :
          requests' = [requests EXCEPT ![t].pc = "read",
                                       ![t].entry = "cancel_booking",
                                       ![t].booking_id = booking_id]
    /\ UNCHANGED <<schedules, seats, bookings, scheduleSeq, seatSeq, bookingSeq, raw, res>>

\* lines 137-153: the booking is loaded into the session and its status tested;
\* a missing or cancelled booking, or a failing query, ends the call here
ReadBooking(t) ==
    /\ requests[t].pc = "read"
    /\ \E storeFails \in {"never", "before_commit"} :
       \E done \in {cancel_booking(requests[t].booking_id, storeFails, bookings)} :
          IF done.response.status = "error"
          THEN Finish(t, done.response)
          ELSE /\ requests' =
                    [requests EXCEPT
                        ![t].pc = "commit",
                        ![t].seen = CHOOSE b \in bookings :
                                        b.id = requests[t].booking_id]
               /\ UNCHANGED res
    /\ UNCHANGED <<schedules, seats, bookings, scheduleSeq, seatSeq, bookingSeq, raw>>

\* lines 155-168: the loaded object is set to cancelled and committed, whatever
\* the row holds by now
CommitCancel(t) ==
    /\ requests[t].pc = "commit"
    /\ \E storeFails \in {"never", "after_commit"} :
       \E done \in {CancelFound(requests[t].seen, storeFails, bookings)} :
          /\ bookings' = done.bookings
          /\ Finish(t, done.response)
    /\ UNCHANGED <<schedules, seats, scheduleSeq, seatSeq, bookingSeq, raw>>

CancelInit == Init /\ bookings # {}

CancelNext ==
    \E t \in Threads :
        \/ StartCancel(t)
        \/ ReadBooking(t)
        \/ CommitCancel(t)

CancelSpec == CancelInit /\ [][CancelNext]_vars

\* ------------------------------------------------------ scrapers/utils.py
IsUpperChar(c) == \E i \in 1..26 : UpperChars[i] = c
IsLowerChar(c) == \E i \in 1..26 : LowerChars[i] = c

\* str.upper() on one character
UpperChar(c) ==
    IF IsLowerChar(c) THEN UpperChars[CHOOSE i \in 1..26 : LowerChars[i] = c] ELSE c

\* str.upper()
Upper(s) == [i \in 1..Len(s) |-> UpperChar(s[i])]

\* str.isupper(): a cased character, and no lower-case one
IsUpper(s) ==
    /\ \E i \in 1..Len(s) : IsUpperChar(s[i])
    /\ \A i \in 1..Len(s) : ~IsLowerChar(s[i])

\* the 0-based indexes at which sub occurs in s
Occurrences(s, sub) ==
    {i \in 0..(Len(s) - Len(sub)) : \A j \in 1..Len(sub) : s[i + j] = sub[j]}

\* s.find(sub): the first of them (the caller has tested sub in s)
Find(s, sub) == CHOOSE i \in Occurrences(s, sub) : \A k \in Occurrences(s, sub) : i <= k

\* s[start:end] for start, end >= 0
Slice(s, start, end) ==
    IF start >= end \/ start >= Len(s) THEN <<>>
    ELSE SubSeq(s, start + 1, IF end > Len(s) THEN Len(s) ELSE end)

TxtUNK == <<"U","N","K">>
TxtDashed == <<" ","-"," ">>

\* utils.normalize_airport_code(location_text); for None the `in` test raises
\* TypeError and the except branch answers "UNK"
normalize_airport_code(location_text) ==
    IF location_text = None THEN TxtUNK
    ELSE IF Contains(location_text, TxtDashed)
    THEN Strip(Slice(location_text, 0, Find(location_text, TxtDashed)))
    ELSE IF HasChar(location_text, "(") /\ HasChar(location_text, ")")
    THEN Strip(Slice(location_text, Find(location_text, <<"(">>) + 1,
                     Find(location_text, <<")">>)))
    ELSE IF Len(location_text) = 3 /\ IsUpper(location_text)
    THEN location_text
    ELSE Upper(Slice(location_text, 0, 3))

\* re.findall(r'\d+', s)[0]: from the first digit to the end of its run
RECURSIVE RunEnd(_, _)
RunEnd(s, i) == IF i < Len(s) /\ IsDigit(s[i + 1]) THEN RunEnd(s, i + 1) ELSE i
DigitPositions(s) == {i \in 1..Len(s) : IsDigit(s[i])}
FirstDigit(s) == CHOOSE i \in DigitPositions(s) : \A k \in DigitPositions(s) : i <= k
FirstNumber(s) == SubSeq(s, FirstDigit(s), RunEnd(s, FirstDigit(s)))

TxtZero == <<"0">>

\* clean_price_text without the removal of the commas
clean_price_text_keeping_commas(price_text) ==
    IF price_text = None THEN TxtZero
    ELSE IF DigitPositions(RemoveChar(price_text, Rupee)) = {} THEN TxtZero
    ELSE FirstNumber(RemoveChar(price_text, Rupee))

\* utils.clean_price_text(price_text); for None .replace raises AttributeError
\* and the except branch answers "0"
clean_price_text(price_text) ==
    IF price_text = None THEN TxtZero
    ELSE IF DigitPositions(RemoveChar(RemoveChar(price_text, Rupee), ",")) = {}
    THEN TxtZero
    ELSE FirstNumber(RemoveChar(RemoveChar(price_text, Rupee), ","))

\* the arguments the helpers are called with
UtilTimes ==
    {<<>>,
     <<"a","b","c">>,
     <<"1","6",":","5","5">>,
     <<"6",":","1","5">>,
     <<"2","5",":","0","0">>,
     <<"1","6",":","6","0">>,
     <<"1","6",":","5","5",":","0","0">>,
     <<"1","6"," ","5","5">>,
     <<"1","6","5","5">>,
     <<"2","3",":","5","9">>}
UtilBaseDates ==
    {<<"2","0","2","4","-","1","2","-","3","1">>,
     <<"2","0","2","4","-","1","2","-","3","1"," ","0","9",":","3","0">>,
     <<"3","1","/","1","2","/","2","0","2","4">>,
     <<"2","0","2","4","-","0","2","-","2","9">>}
UtilLocations ==
    {None,
     <<"D","E","L"," ","-"," ","N","e","w"," ","D","e","l","h","i">>,
     <<"M","u","m","b","a","i"," ","(","B","O","M",")">>,
     <<"D","E","L">>,
     <<"d","e","l">>,
     <<"D","e">>,
     <<"D","e","l","h","i">>,
     <<"d","E","L">>,
     <<"(","B","O","M">>,
     <<"G","o","a"," ","("," ","G","O","I"," ",")">>,
     <<"B"," ","-"," ","C"," ","(","D",")">>,
     <<" ","-"," ">>,
     <<"A","1","B">>,
     <<")","B","O","M","(">>,
     <<>>}
UtilPrices ==
    {None,
     <<Rupee,"4","2",",","4","4","2">>,
     <<Rupee,"1",",","2","3","4"," ","E","x","t","r","a"," ",Rupee,"5","0","0"," ","O","f","f">>,
     <<"n","o"," ","d","i","g","i","t","s">>,
     <<Rupee>>,
     <<",">>,
     <<"1","2",".","5","0">>,
     <<" ","4","5","0"," ">>,
     <<"1",",","2"," ","3">>,
     <<"N","/","A">>,
     <<Rupee,"1","5","0","0">>,
     <<>>}

\* a call of one helper: its arguments, then the value it returned
UtilCall(op, args, done, outcome) ==
    [op |-> op, args |-> args, done |-> done, outcome |-> outcome]
UtilCalls ==
    {UtilCall("time_to_datetime", <<t, d>>, FALSE, <<>>) :
        t \in UtilTimes, d \in UtilBaseDates}
    \cup {UtilCall("normalize_airport_code", <<x>>, FALSE, <<>>) : x \in UtilLocations}
    \cup {UtilCall("clean_price_text", <<p>>, FALSE, <<>>) : p \in UtilPrices}

UtilInit ==
    /\ schedules = {} /\ seats = {} /\ bookings = {}
    /\ scheduleSeq = 0 /\ seatSeq = 0 /\ bookingSeq = 0
    /\ raw = {}
    /\ requests = [t \in Threads |-> IdleRequest]
    /\ res \in UtilCalls

Returns(value) ==
    /\ ~res.done
    /\ res' = [res EXCEPT !.done = TRUE, !.outcome = value]
    /\ UNCHANGED <<schedules, seats, bookings, scheduleSeq, seatSeq, bookingSeq, raw,
                   requests>>

TimeToDatetime ==
    /\ res.op = "time_to_datetime"
    /\ Returns(time_to_datetime(res.args[1], res.args[2]))

NormalizeAirportCode ==
    /\ res.op = "normalize_airport_code"
    /\ Returns(normalize_airport_code(res.args[1]))

CleanPriceText ==
    /\ res.op = "clean_price_text"
    /\ Returns(clean_price_text(res.args[1]))

UtilNext ==
    \/ TimeToDatetime
    \/ NormalizeAirportCode
    \/ CleanPriceText

UtilSpec == UtilInit /\ [][UtilNext]_vars

\* ------------------------------------------- decide_train_booking_outcome
\* status texts as the results page shows them: an optional count or blank in
\* front, then one or two words
StatusLeads == {<<>>, <<"0"," ">>, <<"3"," ">>, <<" ">>}
StatusWords ==
    {<<"A","v","a","i","l","a","b","l","e">>,
     <<"A","V","A","I","L","A","B","L","E">>,
     <<"R","e","g","r","e","t">>,
     <<"W","a","i","t","l","i","s","t">>,
     <<"W","L">>,
     <<"R","L","W","L">>,
     <<"1","2">>,
     <<"T","a","p">>}
StatusTexts ==
    {None, <<>>, <<" ">>}
    \cup {lead \o w : lead \in StatusLeads, w \in StatusWords}
    \cup {lead \o w \o <<" ">> \o v :
            lead \in StatusLeads, w \in StatusWords, v \in StatusWords}

\* a call of decide_train_booking_outcome: the argument, then the value returned
Pending == "pending"
Decision(status_text, outcome) ==
    [op |-> "decide_train_booking_outcome", status_text |-> status_text,
     outcome |-> outcome]

DecideInit ==
    /\ schedules = {} /\ seats = {} /\ bookings = {}
    /\ scheduleSeq = 0 /\ seatSeq = 0 /\ bookingSeq = 0
    /\ raw = {}
    /\ requests = [t \in Threads |-> IdleRequest]
    /\ res \in {Decision(t, Pending) : t \in StatusTexts}

DecideOutcome ==
    /\ res.outcome = Pending
    /\ res' = Decision(res.status_text, decide_train_booking_outcome(res.status_text))
    /\ UNCHANGED <<schedules, seats, bookings, scheduleSeq, seatSeq, bookingSeq, raw,
                   requests>>

DecideNext == DecideOutcome

DecideSpec == DecideInit /\ [][DecideNext]_vars

IsResolution(r) == r.op \in {"get_availability", "scrape_availability"}

\* the persisted schedules the lookup's filter selects for q
Matching(q) == search_schedules(q, schedules)

\* C1: whenever the store holds a schedule matching the query (mode, fuzzy origin
\* and destination, departure in the query's day), a resolution for that query
\* returns those schedules with source "database" and the extraction is not invoked.
C1_CacheFirst ==
    [][(IsResolution(res') /\ Matching(res'.query) # {})
        => /\ res'.outcome = "returned"
           /\ res'.source = "database"
           /\ res'.ids = Matching(res'.query)
           /\ ~res'.extracted]_vars

\* the schedules persisted for q: written for q's origin and destination texts
\* and q's date text
PersistedFor(q) ==
    {s.id : s \in {x \in schedules :
        /\ x.origin_query = q.origin
        /\ x.destination_query = q.destination
        /\ \E r \in raw : r.id = x.id /\ r.datetime = q.datetime}}

\* C2: once schedules have been persisted for a train query Q with a parseable
\* date, every later resolution for Q ends with source "database", returns the
\* schedules persisted for Q, and does not invoke the extraction again.
C2_PersistThenHit ==
    [][(/\ IsResolution(res')
        /\ res'.query.mode = "train"
        /\ DayTable[res'.query.datetime].ok
        /\ PersistedFor(res'.query) # {})
        => /\ res'.source = "database"
           /\ PersistedFor(res'.query) \subseteq res'.ids
           /\ ~res'.extracted]_vars

\* the seat rows of a schedule whose class equals the requested one ignoring case
SameClassRows(schedule_id, seat_class) ==
    {r \in seats : r.schedule_id = schedule_id
                   /\ Lower(r.class_name) = Lower(seat_class)}

\* the seat classes a request can name (neither absent nor empty)
NamedClasses == SeatClassInputs \ {None, TxtEmpty}

\* C3: create_booking for an existing schedule, a non-empty seat_class and a seat
\* row of the schedule matching the class persists exactly one new booking whose
\* status is decide_train_booking_outcome of the row's status text, and returns
\* success with a non-empty booking_id and that status (the store not failing).
C3_SuccessfulBooking ==
    \A s \in schedules : \A seat_class \in NamedClasses :
    \A row \in SameClassRows(s.id, seat_class) :
        LET done == create_booking(s.id, seat_class, row, FALSE, schedules,
                                   bookingSeq + 1)
        IN  /\ done.response.status = "success"
            /\ done.response.booking_id # NoBookingId
            /\ done.response.booking_status
                   = decide_train_booking_outcome(row.status)
            /\ done.rows = {[id |-> done.response.booking_id,
                             schedule_id |-> s.id,
                             booking_status |-> done.response.booking_status]}

\* C4: the first cancel_booking on a non-cancelled booking returns success and
\* sets its status to cancelled (the store not failing); the second returns the
\* already-cancelled error; and a call that returns that error leaves the
\* booking's status and every other stored record unchanged.
C4_CancelTwice ==
    /\ [](\A b \in bookings : b.booking_status # "cancelled" =>
            LET first == cancel_booking(b.id, "never", bookings)
                second == cancel_booking(b.id, "never", first.bookings)
            IN  /\ first.response.status = "success"
                /\ first.bookings = (bookings \ {b})
                       \cup {[b EXCEPT !.booking_status = "cancelled"]}
                /\ second.response.status = "error"
                /\ second.response.message = "Booking is already cancelled"
                /\ second.bookings = first.bookings)
    /\ [][(res'.op = "cancel_booking" /\ res'.status = "success")
            => /\ \E b \in bookings :
                    /\ b.booking_status # "cancelled"
                    /\ bookings' = (bookings \ {b})
                           \cup {[b EXCEPT !.booking_status = "cancelled"]}
               /\ UNCHANGED <<schedules, seats>>]_vars
    /\ [][(res'.op = "cancel_booking"
           /\ res'.message = "Booking is already cancelled")
            => /\ \E b \in bookings : b.booking_status = "cancelled"
               /\ UNCHANGED <<bookings, schedules, seats>>]_vars

\* a second cancellation has been refused: the last call returned the
\* already-cancelled error and the booking is still stored as cancelled
C4_Witness ==
    /\ res.op = "cancel_booking"
    /\ res.status = "error"
    /\ res.message = "Booking is already cancelled"
    /\ \E b \in bookings : b.booking_status = "cancelled"

\* C5: a persisted booking's status is always one of confirmed, waitlist, regret,
\* cancelled; the only status change is from a non-cancelled status to cancelled;
\* a cancelled booking stays cancelled; no operation removes a booking.
C5_Lifecycle ==
    /\ [](\A b \in bookings : b.booking_status \in BookingStatuses)
    /\ [][\A b \in bookings : \E b2 \in bookings' :
            /\ b2.id = b.id
            /\ b2.schedule_id = b.schedule_id
            /\ \/ b2.booking_status = b.booking_status
               \/ /\ b.booking_status # "cancelled"
                  /\ b2.booking_status = "cancelled"]_vars

\* a booking has just been cancelled and another one is stored next to it
C5_Witness ==
    /\ res.op = "cancel_booking"
    /\ res.status = "success"
    /\ \E b \in bookings : b.booking_status = "cancelled"
    /\ Cardinality(bookings) = MaxBookings

\* C6: whenever create_booking returns status "error", the returned booking_id is
\* empty, booking_status is absent and the set of persisted bookings is unchanged.
C6_NoFabricatedBooking ==
    [][(res'.op = "create_booking" /\ res'.status = "error")
        => /\ res'.booking_id = NoBookingId
           /\ res'.booking_status = ""
           /\ UNCHANGED <<bookings, bookingSeq>>]_vars

\* create_booking has returned the error for a class no seat row matches, with
\* bookings in the store
C6_Witness ==
    /\ res.op = "create_booking"
    /\ res.status = "error"
    /\ res.message = "No seat availability data for class"
    /\ bookings # {}

\* C7: seat-class matching is equality ignoring case: for every requested
\* seat_class (also one holding % or _) that differs from every seat row's
\* class_name of the schedule ignoring case, create_booking returns the
\* no-seat-data error.
C7_CaseInsensitiveEquality ==
    \A s \in schedules : \A seat_class \in NamedClasses :
        SameClassRows(s.id, seat_class) = {} =>
            \A row \in (IF SeatRowsFor(s.id, seat_class, seats) = {} THEN {NoRow}
                        ELSE SeatRowsFor(s.id, seat_class, seats)) :
                create_booking(s.id, seat_class, row, FALSE, schedules,
                               bookingSeq + 1).response.message
                    = "No seat availability data for class"

\* C8: every persisted schedule has arrival_time strictly greater than
\* departure_time, whatever clock-time texts were extracted.
C8_ArrivalAfterDeparture ==
    \A s \in schedules : s.arrival_time > s.departure_time

\* a schedule has been persisted from a record whose two clock texts are equal
\* (both 06:15, or both empty)
C8_Witness ==
    /\ res.op = "save_schedules"
    /\ \E r \in raw : /\ r.id \in res.ids
                      /\ r.departure_time = r.arrival_time
                      /\ \E s \in schedules : s.id = r.id

\* a clock text HH:MM, its minutes after midnight, and the day number of the
\* calendar day a date text opens with, each read off by position
IsClock(t) ==
    /\ Len(t) = 5
    /\ t[3] = ":"
    /\ \A i \in {1, 2, 4, 5} : IsDigit(t[i])
ClockOf(t) ==
    (DigitVal(t[1]) * 10 + DigitVal(t[2])) * 60 + DigitVal(t[4]) * 10 + DigitVal(t[5])
DayOf(d) ==
    DayNumber(DigitVal(d[1]) * 1000 + DigitVal(d[2]) * 100 + DigitVal(d[3]) * 10
                  + DigitVal(d[4]),
              DigitVal(d[6]) * 10 + DigitVal(d[7]),
              DigitVal(d[9]) * 10 + DigitVal(d[10]))

\* C9: a persisted schedule's departure_time is the query's calendar day at the
\* raw departure clock time; its arrival_time is the raw arrival clock time on the
\* day after the query's day when the raw arrival clock time is less than or equal
\* to the raw departure clock time, and on the query's day otherwise.
C9_ExactRollover ==
    \A r \in raw : (IsClock(r.departure_time) /\ IsClock(r.arrival_time)) =>
        \E s \in schedules :
            /\ s.id = r.id
            /\ s.departure_time
                   = DayOf(r.datetime) * MinutesPerDay + ClockOf(r.departure_time)
            /\ s.arrival_time
                   = IF ClockOf(r.arrival_time) <= ClockOf(r.departure_time)
                     THEN (DayOf(r.datetime) + 1) * MinutesPerDay
                              + ClockOf(r.arrival_time)
                     ELSE DayOf(r.datetime) * MinutesPerDay
                              + ClockOf(r.arrival_time)

\* a call of save_schedules has persisted an overnight record (arrival clock
\* before departure clock) and a same-day record
C9_Witness ==
    /\ res.op = "save_schedules"
    /\ \E r \in raw : /\ r.id \in res.ids
                      /\ IsClock(r.departure_time) /\ IsClock(r.arrival_time)
                      /\ ClockOf(r.arrival_time) < ClockOf(r.departure_time)
    /\ \E r \in raw : /\ r.id \in res.ids
                      /\ IsClock(r.departure_time) /\ IsClock(r.arrival_time)
                      /\ ClockOf(r.arrival_time) > ClockOf(r.departure_time)

\* every resolution whose write of a non-empty batch fails returns status "error"
\* and writes nothing: the old class's scrape_trains, and the new class's
\* _scrape_trains after save_schedules has raised
WriteFailureIsError ==
    \A q \in {x \in Queries : x.mode = "train"} : \A batch \in Batches :
        /\ save_to_database(batch, q).raised =>
            LET old == scrape_trains(q, [kind |-> "returns", schedules |-> batch])
            IN  old.res.status = "error" /\ old.schedules = {} /\ old.seats = {}
        /\ \A failAt \in 0..(Len(batch) + 1) :
            LET saved == save_schedules(batch, q, failAt, 0, 0)
                new == ScrapedResponse("get_availability", q,
                                       [kind |-> "returns", schedules |-> batch],
                                       saved, 0)
            IN  saved.raised =>
                    /\ saved.schedules = {} /\ saved.seats = {}
                    /\ new.res.status = "error"
                    /\ new.schedules = {} /\ new.seats = {}

\* C10: a write of a batch that fails at any point leaves none of the batch's
\* schedules and seat rows in the store, and the resolution returns status "error";
\* a schedule is never in the store without all of its seat rows, nor a seat row
\* without its schedule.
C10_AtomicPersistence ==
    /\ [](/\ WriteFailureIsError
          /\ \A s \in schedules : \E r \in raw :
                /\ r.id = s.id
                /\ Cardinality({x \in seats : x.schedule_id = s.id}) = r.seat_count
          /\ \A x \in seats : \E s \in schedules : s.id = x.schedule_id)
    /\ [][(res'.op = "save_schedules" /\ res'.outcome = "raised")
            => UNCHANGED <<schedules, seats>>]_vars
    /\ [][(IsResolution(res') /\ res'.status # "success")
            => UNCHANGED <<schedules, seats>>]_vars

\* a call of save_schedules has failed on a store that already holds a batch
C10_Witness ==
    /\ res.op = "save_schedules"
    /\ res.outcome = "raised"
    /\ schedules # {}
    /\ scheduleSeq < MaxScheduleId

\* the messages of the two modes without a scraper
NotImplementedMessages ==
    {"Bus scraping not implemented yet", "Flight scraping not implemented yet"}

\* the new class's _scrape_availability, whatever the extraction would have
\* given: bus and flight end in the not-implemented error, nothing extracted,
\* nothing written
DispatchShortCircuits ==
    \A q \in {x \in Queries : x.mode \in {"bus", "flight"}} : \A ext \in Extractions :
        /\ scrape_availability_new("get_availability", q, ext, 0, 0, 0).res.status
               = "error"
        /\ scrape_availability_new("get_availability", q, ext, 0, 0, 0).res.message
               \in NotImplementedMessages
        /\ ~scrape_availability_new("get_availability", q, ext, 0, 0, 0).res.extracted
        /\ scrape_availability_new("get_availability", q, ext, 0, 0, 0).schedules = {}
        /\ scrape_availability_new("get_availability", q, ext, 0, 0, 0).seats = {}

\* C11: a resolution for mode bus or flight that misses the cache ends with
\* status "error" and a not-implemented message, without invoking the extraction
\* and without changing the store.
C11_UnsupportedModes ==
    /\ []DispatchShortCircuits
    /\ [][(/\ IsResolution(res')
           /\ res'.query.mode \in {"bus", "flight"}
           /\ res'.outcome = "returned"
           /\ res'.source # "database")
            => /\ res'.status = "error"
               /\ res'.message \in NotImplementedMessages
               /\ res'.ids = {}
               /\ ~res'.extracted
               /\ UNCHANGED <<schedules, seats, bookings>>]_vars

\* a bus resolution has ended in the not-implemented error on a store that
\* holds schedules
C11_Witness ==
    /\ res.op = "scrape_availability"
    /\ res.query.mode = "bus"
    /\ res.status = "error"
    /\ res.message = "Bus scraping not implemented yet"
    /\ schedules # {}

\* C12: when a train resolution misses the cache and the extraction completes
\* with an empty list of schedules, the resolution ends with status "error" and
\* nothing is persisted: a resolution that extracted and returns no schedule is
\* an error.
C12_EmptyExtractionIsError ==
    [][(/\ IsResolution(res')
        /\ res'.query.mode = "train"
        /\ res'.extracted
        /\ res'.ids = {})
        => /\ res'.status = "error"
           /\ res'.message # ""
           /\ UNCHANGED <<schedules, seats>>]_vars

FailedExtractions == {e \in Extractions : e.kind # "returns"}
FailureReasons ==
    {"Main execution error", "Failed to fill station",
     "Train results did not load within timeout", "Train scraping error"}

\* both train workflows answer a failed extraction with the error response and
\* write nothing
FailureContained(effect) ==
    /\ effect.res.outcome = "returned"
    /\ effect.res.status = "error"
    /\ effect.res.ids = {}
    /\ effect.res.message \in FailureReasons
    /\ effect.res.extracted
    /\ effect.schedules = {} /\ effect.seats = {}

ExtractionFailureContained ==
    \A q \in Queries, e \in FailedExtractions :
        /\ FailureContained(scrape_trains(q, e))
        /\ \A failAt \in 0..MaxBatch :
              FailureContained(scrape_trains_new("get_availability", q, e, failAt,
                                                 0, 0))

\* C13: when a train resolution misses the cache and the extraction fails (the
\* driver cannot be set up, a wait times out, any exception), the resolution
\* returns status "error" with no schedule and a message naming the reason, and
\* the store is left unchanged.
C13_ExtractionFailureContained ==
    /\ []ExtractionFailureContained
    /\ [][(/\ IsResolution(res')
           /\ res'.query.mode = "train"
           /\ res'.extracted
           /\ res'.status = "error")
           => /\ res'.outcome = "returned"
              /\ res'.ids = {}
              /\ res'.message \in FailureReasons
              /\ UNCHANGED <<schedules, seats, bookings>>]_vars

C13_Witness ==
    /\ res.op = "scrape_availability"
    /\ res.query.mode = "train"
    /\ res.status = "error"
    /\ res.message = "Train results did not load within timeout"
    /\ res.ids = {}

MalformedDate(q) == ~DayTable[q.datetime].ok

\* C14: a query.datetime that cannot be parsed into a calendar day is a failure of
\* the resolution, not a silent miss: the lookup does not answer with its miss
\* value, and the resolution ends in an error result without invoking the
\* extraction.
C14_MalformedDateIsFailure ==
    [][/\ (res'.op = "search_schedules" /\ MalformedDate(res'.query))
           => res'.message # "None"
       /\ (res'.op = "scrape_availability" /\ MalformedDate(res'.query))
           => (res'.status = "error" /\ ~res'.extracted)]_vars

\* C15: every resolution started through the orchestrator's entry point returns a
\* result object that is exactly one of Done(source=database),
\* Done(source=scraper) or Done(error); it never ends by raising.
C15_AlwaysReturnsResult ==
    [][IsResolution(res')
        => /\ res'.outcome = "returned"
           /\ \/ res'.status = "success" /\ res'.source \in {"database", "scraper"}
              \/ res'.status = "error"]_vars

ContainsIgnoringCase(s, sub) == Contains(Lower(s), Lower(sub))

\* the schedules the description of the lookup selects for q
ContainingIds(q, rows) ==
    {s.id : s \in {r \in rows :
        /\ r.transport_mode = q.mode
        /\ \/ ContainsIgnoringCase(r.origin_query, q.origin)
           \/ ContainsIgnoringCase(r.origin, q.origin)
        /\ \/ ContainsIgnoringCase(r.destination_query, q.destination)
           \/ ContainsIgnoringCase(r.destination, q.destination)
        /\ r.departure_time >= DayTable[q.datetime].start
        /\ r.departure_time <= DayTable[q.datetime].end}}

\* C16: for every store and every query with a parseable date the lookup returns
\* precisely the persisted schedules of the query's mode whose origin_query or
\* origin contains query.origin ignoring case, whose destination_query or
\* destination contains query.destination ignoring case, and whose departure
\* lies within the query's day, bounds included; it reports a miss exactly when
\* that set is empty.
C16_LookupExact ==
    \A q \in LookupQueries :
        ~MalformedDate(q) => search_schedules(q, schedules) = ContainingIds(q, schedules)

\* the same equality over the queries that hold neither % nor _ (it holds)
C16_SanityNoWildcard ==
    \A q \in Queries :
        ~MalformedDate(q) => search_schedules(q, schedules) = ContainingIds(q, schedules)

Decided == res.op = "decide_train_booking_outcome" /\ res.outcome # Pending
TxtAvailable == <<"a","v","a","i","l","a","b","l","e">>
TxtRegret == <<"r","e","g","r","e","t">>
TxtWaitlist == <<"w","a","i","t","l","i","s","t">>
TxtWl == <<"w","l">>

C18_RegretBeforeWaitlist ==
    Decided =>
        /\ res.outcome \in {"confirmed", "waitlist", "regret"}
        /\ (res.status_text # None /\ ~ContainsIgnoringCase(res.status_text, TxtAvailable))
              => /\ ContainsIgnoringCase(res.status_text, TxtRegret)
                      => res.outcome = "regret"
                 /\ ~ContainsIgnoringCase(res.status_text, TxtRegret)
                      => /\ res.outcome = "waitlist"
                            <=> \/ ContainsIgnoringCase(res.status_text, TxtWaitlist)
                                \/ ContainsIgnoringCase(res.status_text, TxtWl)
                         /\ res.outcome \in {"waitlist", "regret"}
        /\ res.status_text = None => res.outcome = "regret"

C18_Witness ==
    /\ Decided
    /\ res.status_text = <<"R","e","g","r","e","t">> \o <<" ">> \o <<"R","L","W","L">>
    /\ res.outcome = "regret"

\* two distinct schedule records for one carrier run of query q
CarrierRunDuplicated(q) ==
    \E s1 \in schedules, s2 \in schedules :
        /\ s1.id # s2.id
        /\ s1.transport_id = s2.transport_id
        /\ s1.departure_time = s2.departure_time
        /\ s1.origin_query = q.origin /\ s2.origin_query = q.origin
        /\ s1.destination_query = q.destination /\ s2.destination_query = q.destination

BothExtracted(q) ==
    \A t \in Threads :
        /\ requests[t].pc = "done"
        /\ requests[t].query = q
        /\ requests[t].result.extracted
        /\ requests[t].ext.kind = "returns"
        /\ requests[t].ext.schedules # <<>>
        /\ requests[t].ext = requests[1].ext

\* C19: two resolutions for the same train query that run concurrently on a store
\* without a match both miss, both invoke the extraction and both persist: once
\* both have extracted the same records and finished, the store holds two
\* distinct schedule records for the same carrier run.
C19_ConcurrentDuplicates ==
    \A q \in ConcQueries :
        (q.mode = "train" /\ BothExtracted(q)) => CarrierRunDuplicated(q)

\* no interleaving of resolutions leaves a duplicated carrier run
C19_NoDuplicateEver == \A q \in ConcQueries : ~CarrierRunDuplicated(q)

ConfirmedOn(schedule_id) ==
    {b \in bookings : b.schedule_id = schedule_id /\ b.booking_status = "confirmed"}

\* a further create_booking for a class that reads available is confirmed again,
\* whatever confirmed bookings the schedule already has
ConfirmedAgain ==
    \A s \in schedules : \A seat_class \in NamedClasses :
    \A row \in SameClassRows(s.id, seat_class) :
        (/\ decide_train_booking_outcome(row.status) = "confirmed"
         /\ ConfirmedOn(s.id) # {})
            => LET done == create_booking(s.id, seat_class, row, FALSE, schedules,
                                          bookingSeq + 1)
               IN  /\ done.response.booking_status = "confirmed"
                   /\ Cardinality(done.rows) = 1

\* neither create_booking nor cancel_booking writes a seat row or a schedule
SeatRowsUntouched ==
    [][res'.op \in {"create_booking", "cancel_booking"}
        => UNCHANGED <<seats, schedules, seatSeq, scheduleSeq>>]_vars

\* C20: create_booking and cancel_booking never change a seat row, so successive
\* create_booking calls for the same schedule and class all receive the same
\* outcome: the number of confirmed bookings for a class is not bounded by the
\* count in its status text.
C20_NoSeatReservation == SeatRowsUntouched /\ []ConfirmedAgain

\* C21: the schedule cache is append-only: rows of transport_schedules and
\* seat_availability are added only by the persistence step of a resolution that
\* missed and extracted; no resolution, lookup, create_booking or cancel_booking
\* modifies or deletes a persisted row, so the persisted set only grows.
C21_AppendOnly ==
    [][/\ schedules \subseteq schedules'
       /\ seats \subseteq seats'
       /\ (schedules' # schedules \/ seats' # seats)
            => \/ res'.op = "save_schedules" /\ res'.outcome = "returned"
               \/ /\ IsResolution(res') /\ res'.extracted
                  /\ res'.status = "success" /\ res'.source = "scraper"
       /\ res'.op \in {"search_schedules", "create_booking", "cancel_booking"}
            => UNCHANGED <<schedules, seats>>
       /\ (IsResolution(res') /\ res'.source = "database")
            => UNCHANGED <<schedules, seats>>]_vars

C21_Witness ==
    /\ res.op = "save_schedules"
    /\ res.outcome = "returned"
    /\ Cardinality(schedules) = 2
    /\ \E s \in schedules : s.id \in res.ids
    /\ \E s \in schedules : s.id \notin res.ids

SchedulesWithId(id) == {s \in schedules : s.id = id}

SeatRowsBelong ==
    \A seat \in seats : Cardinality(SchedulesWithId(seat.schedule_id)) = 1
BookingsBelong ==
    \A b \in bookings : Cardinality(SchedulesWithId(b.schedule_id)) = 1

DigitsOnly(s) == s # <<>> /\ AllDigits(s)

\* C23: every seat row written by a resolution has a price made of digits only:
\* the price read from the page is normalized ("Rs 1,500" becomes "1500") and no
\* persisted price holds a currency sign, a separator or text such as "N/A".
C23_PricesNormalized ==
    /\ [](\A p \in PagePrices : DigitsOnly(extract_seat_price(p)))
    /\ [][\A seat \in seats' \ seats : DigitsOnly(seat.price)]_vars

Returned(op) == res.op = op /\ res.done

\* the time text does not parse as a clock time on a well-formed day
NoClockTime(time_str) ==
    ~StrptimeDateTime(DateDec31 \o <<" ">> \o time_str \o <<":","0","0">>).ok
\* a date, or a date followed by a time part
WellFormedBase(base_date) == StrptimeDate(DatePart(base_date)).ok

\* C24: for every time text that is no clock time and every base date (a date, or
\* a date followed by a time part) time_to_datetime returns midnight of the base
\* date's day and propagates no error.
C24_LenientFallback ==
    (/\ Returned("time_to_datetime")
     /\ NoClockTime(res.args[1])
     /\ WellFormedBase(res.args[2]))
        => /\ res.outcome.ok
           /\ res.outcome.dt = StrptimeDate(DatePart(res.args[2])).dt

\* the same for base dates without a time part (it holds)
C24_SanityDateOnly ==
    (/\ Returned("time_to_datetime")
     /\ NoClockTime(res.args[1])
     /\ WellFormedBase(res.args[2])
     /\ ~HasChar(res.args[2], " "))
        => /\ res.outcome.ok
           /\ res.outcome.dt = StrptimeDate(DatePart(res.args[2])).dt

\* the code the description of normalize_airport_code gives for a text
DescribedCode(x) ==
    IF x = None \/ x = <<>> THEN TxtUNK
    ELSE IF Contains(x, TxtDashed)
    THEN Strip(SubSeq(x, 1, Find(x, TxtDashed)))
    ELSE IF HasChar(x, "(") /\ HasChar(x, ")")
    THEN Strip(Slice(x, Find(x, <<"(">>) + 1, Find(x, <<")">>)))
    ELSE IF Len(x) = 3 /\ Upper(x) = x /\ Lower(x) # x
    THEN x
    ELSE Upper(SubSeq(x, 1, IF Len(x) < 3 THEN Len(x) ELSE 3))

\* C25: normalize_airport_code never fails and returns a text: CODE for
\* "CODE - Name", CODE for "Name (CODE)", a 3-letter upper-case input unchanged,
\* the first three characters upper-cased for any other input, and "UNK" for an
\* empty input.
C25_AirportCode ==
    Returned("normalize_airport_code") => res.outcome = DescribedCode(res.args[1])

\* the same for non-empty texts (it holds)
C25_SanityNonEmpty ==
    (Returned("normalize_airport_code") /\ res.args[1] # <<>>)
        => res.outcome = DescribedCode(res.args[1])

\* r is the first maximal run of digits of s
IsFirstDigitRun(r, s) ==
    \E i \in 1..Len(s) : \E j \in i..Len(s) :
        /\ r = SubSeq(s, i, j)
        /\ \A k \in i..j : IsDigit(s[k])
        /\ \A k \in 1..(i - 1) : ~IsDigit(s[k])
        /\ j = Len(s) \/ ~IsDigit(s[j + 1])

WithoutSignsAndCommas(s) ==
    IF s = None THEN <<>> ELSE SelectSeq(s, LAMBDA c : c \notin {Rupee, ","})

\* C26: clean_price_text never fails and returns the first maximal run of digits
\* of the text with every rupee sign and comma removed, or "0" when no digit
\* remains; the result is always a non-empty text of digits.
C26_CleanPrice ==
    Returned("clean_price_text") =>
        /\ AllDigits(res.outcome)
        /\ IF \E k \in 1..Len(WithoutSignsAndCommas(res.args[1])) :
                 IsDigit(WithoutSignsAndCommas(res.args[1])[k])
           THEN IsFirstDigitRun(res.outcome, WithoutSignsAndCommas(res.args[1]))
           ELSE res.outcome = TxtZero
        /\ res.args[1] = <<Rupee,"4","2",",","4","4","2">> => res.outcome = <<"4","2","4","4","2">>
        /\ res.args[1] = <<"n","o"," ","d","i","g","i","t","s">> => res.outcome = TxtZero

C26_Witness ==
    /\ Returned("clean_price_text")
    /\ res.args[1] = <<Rupee,"1",",","2","3","4"," ","E","x","t","r","a"," ",Rupee,"5","0","0"," ","O","f","f">>
    /\ res.outcome = <<"1","2","3","4">>

TrainQueries == {q \in Queries : q.mode = "train"}
\* the lists whose every record converts for query q
SavableBatches(q) ==
    {b \in Batches : \A i \in 1..Len(b) : ~ConversionRaises(b[i], q)}
ExistingIds == {s.id : s \in schedules}

\* the result carries one fresh id per record, the ids of the rows written
IdsAssigned(effect, batch) ==
    /\ effect.res.status = "success"
    /\ effect.res.source = "scraper"
    /\ Cardinality(effect.res.ids) = Len(batch)
    /\ effect.res.ids = {s.id : s \in effect.schedules}
    /\ effect.res.ids \cap ExistingIds = {}

C27_SaveAssignsIds ==
    \A q \in TrainQueries : \A b \in SavableBatches(q) :
        /\ ~save_schedules(b, q, 0, scheduleSeq, seatSeq).raised
        /\ Cardinality(save_schedules(b, q, 0, scheduleSeq, seatSeq).ids) = Len(b)
        /\ save_schedules(b, q, 0, scheduleSeq, seatSeq).ids
              = {s.id : s \in save_schedules(b, q, 0, scheduleSeq, seatSeq).schedules}
        /\ save_schedules(b, q, 0, scheduleSeq, seatSeq).ids \cap ExistingIds = {}

\* C28: of two cancel_booking calls on the same non-cancelled booking that
\* interleave, each reading the booking before the other commits, at most one
\* returns success (the other returns the already-cancelled error).
C28_OneCancellationWins ==
    \A t1 \in Threads : \A t2 \in Threads \ {t1} :
        (/\ requests[t1].pc = "done" /\ requests[t2].pc = "done"
         /\ requests[t1].entry = "cancel_booking"
         /\ requests[t2].entry = "cancel_booking"
         /\ requests[t1].booking_id = requests[t2].booking_id)
            => ~(/\ requests[t1].result.status = "success"
                 /\ requests[t2].result.status = "success")

\* every persisted schedule is a train (it holds)
C29_OnlyTrainsPersisted == \A s \in schedules : s.transport_mode = "train"

\* C29: in every reachable state every persisted schedule has mode "train" (the
\* stored mode is the extracted record's, not the query's), and so every
\* resolution with mode bus or flight ends in the not-implemented error and never
\* in a cache hit.
C29_OnlyTrains ==
    /\ []C29_OnlyTrainsPersisted
    /\ [][(IsResolution(res') /\ res'.query.mode \in {"bus", "flight"})
            => /\ res'.outcome = "returned"
               /\ res'.status = "error"
               /\ res'.message \in NotImplementedMessages
               /\ res'.source # "database"]_vars

\* the shape of a TravelAvailabilityResponse
WellShaped(r) ==
    /\ r.source \in {"database", "scraper"}
    /\ r.status \in {"success", "error"}
    /\ r.source = "database" => (r.status = "success" /\ r.ids # {})
    /\ r.status = "error" => (r.ids = {} /\ r.source = "scraper" /\ r.message # "")
    /\ r.query \in Queries

\* every response the two orchestrators build for a query is for that query
AnswersItsQuery ==
    \A q \in Queries : \A ext \in Extractions :
        /\ scrape_availability(q, ext, schedules).res.query = q
        /\ WellShaped(scrape_availability(q, ext, schedules).res)
        /\ scrape_availability_new("get_availability", q, ext, 0, scheduleSeq,
                                   seatSeq).res.query = q
        /\ WellShaped(scrape_availability_new("get_availability", q, ext, 0,
                                              scheduleSeq, seatSeq).res)

====
